---- MODULE Spec2Model ----
(***************************************************************************)
(* State-machine model of the web-admin client:                            *)
(*   - the axios client of src/lib/api.ts (both revisions kept in the      *)
(*     repository: the first sends the refresh through `api`, the second   *)
(*     through the interceptor-free `authApi`), its request / response     *)
(*     interceptors and the single-flight refreshAccessToken;              *)
(*   - authStore (localStorage), AuthGuard's session restore and the       *)
(*     layout's unread-count poll;                                         *)
(*   - the Idempotency-Key builders used by the pages' mutations.          *)
(* JavaScript runs one task at a time: a response arriving is a task, and  *)
(* the promise continuations it schedules (microtasks) all run before the  *)
(* next task.  Continuations are separate actions here, and every task     *)
(* action is guarded by ~MicroPending.                                     *)
(***************************************************************************)
EXTENDS Integers, Sequences, FiniteSets, TLC

\* ---------------------------------------------------------------- bounds
NumPage    == 2   \* requests the pages send (request 1 is the unread-count poll)
MaxRuns    == 2   \* runs of AuthGuard's effect
MaxRefresh == 2   \* refresh calls started by refreshAccessToken
MaxReqs    == 4   \* requests handed to axios, all callers together
MaxUuid    == 2   \* values crypto.randomUUID() hands out
MaxMuts    == 2   \* mutation requests the pages submit
MaxLoads   == 2   \* times the login document is loaded
MaxPats    == 2   \* category patches the admin starts
MaxCatIds  == 2   \* length of the categoryIds a product comes with

None == "none"

\* access tokens are numbers: 0 is "no token", 1 the token an earlier login left
\* in localStorage; the backend issues a new one with every refresh it grants
NoToken  == 0
OldToken == 1
\* the token granted to the n-th transmission of request r (all distinct)
IssuedToken(r, n) == 2 * r + n

\* ------------------------------------------------------- strings and URLs
\* Strings are sequences of one-character strings.
AdminPath   == <<"/", "a", "d", "m", "i", "n">>
LoginPath   == <<"/", "l", "o", "g", "i", "n">>
LoginPrefix == <<"/", "l", "o", "g", "i", "n", "?", "n", "e", "x", "t", "=">>

\* window.location values the admin can be at (pathname, search).
Locations ==
  { [pathname |-> AdminPath, search |-> <<>>],
    [pathname |-> <<"/", "a", "d", "m", "i", "n", "/", "o">>,
     search   |-> <<"?", "q", "=", "a", " ", "%", "&", "p", "=", "2">>] }

EncodeChar(c) ==
  CASE c = "/" -> <<"%", "2", "F">>
    [] c = "?" -> <<"%", "3", "F">>
    [] c = "=" -> <<"%", "3", "D">>
    [] c = "&" -> <<"%", "2", "6">>
    [] c = " " -> <<"%", "2", "0">>
    [] c = "%" -> <<"%", "2", "5">>
    [] OTHER   -> <<c>>

RECURSIVE encodeURIComponent(_)
encodeURIComponent(s) ==
  IF s = <<>> THEN <<>> ELSE EncodeChar(Head(s)) \o encodeURIComponent(Tail(s))

DecodeHex(a, b) ==
  CASE a = "2" /\ b = "F" -> "/"
    [] a = "3" /\ b = "F" -> "?"
    [] a = "3" /\ b = "D" -> "="
    [] a = "2" /\ b = "6" -> "&"
    [] a = "2" /\ b = "0" -> " "
    [] a = "2" /\ b = "5" -> "%"
    [] OTHER              -> "?"

\* Percent-decoding, as URLSearchParams does when a parameter is read.
RECURSIVE decodeURIComponent(_)
decodeURIComponent(s) ==
  IF s = <<>> THEN <<>>
  ELSE IF Head(s) = "%" /\ Len(s) >= 3
       THEN <<DecodeHex(s[2], s[3])>> \o decodeURIComponent(SubSeq(s, 4, Len(s)))
       ELSE <<Head(s)>> \o decodeURIComponent(Tail(s))

\* `x || "/admin"` on strings: the empty string (and null, modelled as <<>>) is falsy.
\* where the browser is when the page loads
StartLocation == CHOOSE l \in Locations : l.search # <<>>

OrAdmin(x) == IF x = <<>> THEN AdminPath ELSE x

\* ------------------------------------------------------------- the state
VARIABLES
  build,       \* which revision of src/lib/api.ts is bundled: "v1" | "v2"
  store,       \* authStore / localStorage: [token, me]
  refreshing,  \* the module-level slot: 0 (null) or the id of the pending refresh
  ops,         \* refresh operations started by refreshAccessToken
  nOps,        \* number of refresh operations started so far
  req,         \* requests sent through axios, one record per slot
  runs,        \* runs of AuthGuard's effect
  cur,         \* the current run (0 before the layout is mounted)
  ok,          \* AuthGuard's `ok` state
  loc,         \* window.location
  href,        \* what the last step assigned to window.location.href (<<>> if nothing)
  routerNav,   \* the target the last step gave to router.replace (<<>> if none)
  muts,        \* the mutation requests the pages have submitted, in order
  nUuid,       \* number of crypto.randomUUID() results handed out
  sess,        \* the document loaded, the login form and the logout in progress
  cache,       \* react-query's cached category list of the categories page
  pats,        \* the category patches started (patchM), in order
  pendingId,   \* the categories page's pendingId state ("" is null)
  catq,        \* the categories query: invalidation timers set, fetch in flight
  server,      \* the categories as the backend holds them
  dlg,         \* the confirm dialog: open or not, its action and item; pending mutations
  form,        \* the product form: the page, categoryId and categoryIds state
  lastPayload  \* the category fields of the last product payload sent

authVars == <<build, store, refreshing, ops, nOps, req, runs, cur, ok, loc, href,
              routerNav>>
idemVars == <<muts, nUuid>>
sessVars == <<sess>>
catVars  == <<cache, pats, pendingId, catq, server>>
dlgVars  == <<dlg>>
formVars == <<form, lastPayload>>
vars     == <<build, store, refreshing, ops, nOps, req, runs, cur, ok, loc, href,
              routerNav, muts, nUuid, sess, cache, pats, pendingId, catq, server,
              dlg, form, lastPayload>>

Roles  == {"ADMIN", "SELLER"}

\* request slots: pages, then AuthGuard's refresh per run, then refreshAccessToken's
PageIds  == 1..NumPage
GuardReq(k) == NumPage + k
RtReq(o)    == NumPage + MaxRuns + o
LogoutReq   == NumPage + MaxRuns + MaxRefresh + 1
LoginReq    == NumPage + MaxRuns + MaxRefresh + 2
ReqIds   == 1..(NumPage + MaxRuns + MaxRefresh + 2)
IsPage(r)  == r \in PageIds
IsGuard(r) == r > NumPage /\ r <= NumPage + MaxRuns
IsRt(r)    == r > NumPage + MaxRuns /\ r <= NumPage + MaxRuns + MaxRefresh
\* original.url includes endpoints.auth.refresh
IsRefreshUrl(r) == IsGuard(r) \/ IsRt(r)
\* the request goes through `api` (and so through its interceptors)
ViaApi(r) == ~IsRt(r) \/ build = "v1"

\* what a request's promise is rejected with: its own 401 answer, its own other
\* error, or the error the refresh promise was rejected with
NoErr == "none"

\* method, URL, body and Idempotency-Key of a transmission (nothing sent yet)
NoWire == [method |-> "", url |-> <<>>, body |-> <<>>, key |-> <<>>]

IdleReq == [st |-> "idle", retry |-> FALSE, sent |-> 0, hdr |-> NoToken, joined |-> 0,
            recv |-> NoToken, data |-> [token |-> NoToken, user |-> None], err |-> NoErr,
            wire |-> NoWire]
\* forTok: the Authorization the request whose 401 started the refresh was sent with
IdleOp  == [st |-> "none", token |-> NoToken, forTok |-> NoToken]
IdleRun == [pc |-> "idle", alive |-> FALSE, pathname |-> <<>>]

EmptyStore == [token |-> NoToken, me |-> None]

\* the admin pages are loaded, nobody has logged out or in yet
IdleSess == [doc |-> "admin", loads |-> 0, nav |-> <<>>, from |-> <<>>,
             nextParam |-> <<>>, login |-> "idle", logout |-> "idle",
             formErr |-> "none", password |-> "typed", loggedOut |-> FALSE]

\* no confirm dialog is open, none was closed yet, no mutation is pending
IdleDlg == [open |-> FALSE, action |-> "", id |-> <<>>, last |-> "none",
            busy |-> {}]

\* a product form as mounted: useState("") and useState([]); the edit page
\* has not received its product yet
IdleForm == [page |-> "edit", loaded |-> FALSE, categoryId |-> "",
             categoryIds |-> <<>>]

\* nothing was saved yet; `has` says whether the payload has a categoryIds key
NoPayload == [page |-> "none", flip |-> FALSE, categoryId |-> "", has |-> FALSE,
              categoryIds |-> <<>>]

\* the category list the categories page has fetched: id -> [name, active]
CatIds == {"c1", "c2"}
StartCache == [c \in CatIds |-> [name |-> <<"x">>, active |-> TRUE]]

clearAllTokenOnly(s) == [s EXCEPT !.token = NoToken]

\* authStore.clearAll
clearAll(s) == EmptyStore

setAccessTokenLost(s, t) == s

\* authStore.setAccessToken
setAccessToken(s, t) == [s EXCEPT !.token = t]
\* authStore.setMe
setMe(s, me) == [s EXCEPT !.me = me]

Init ==
  /\ build \in {"v1", "v2"}
  /\ store \in {EmptyStore} \cup [token : {OldToken}, me : Roles]
  /\ refreshing = 0
  /\ ops = [o \in 1..MaxRefresh |-> IdleOp]
  /\ nOps = 0
  /\ req = [r \in ReqIds |-> IdleReq]
  /\ runs = [k \in 1..MaxRuns |-> IdleRun]
  /\ cur = 0
  /\ ok = FALSE
  /\ loc = StartLocation
  /\ href = <<>>
  /\ routerNav = <<>>
  /\ muts = <<>>
  /\ nUuid = 0
  /\ sess = IdleSess
  /\ cache = StartCache
  /\ pats = <<>>
  /\ pendingId = ""
  /\ catq = [timers |-> 0, fetch |-> "idle"]
  /\ server = StartCache
  /\ dlg = IdleDlg
  /\ form = IdleForm
  /\ lastPayload = NoPayload

\* ------------------------------------------------------------ microtasks
Settled(r) == req[r].st \in {"resolved", "rejected"}

\* a promise continuation is scheduled and has not run yet
MicroPending ==
  \/ \E r \in ReqIds : req[r].st \in {"resumeOk", "resumeFail"}
  \/ \E o \in 1..MaxRefresh : ops[o].st = "pending" /\ Settled(RtReq(o))
  \/ \E k \in 1..MaxRuns : runs[k].pc = "await" /\ Settled(GuardReq(k))
  \/ sess.logout = "await" /\ Settled(LogoutReq)
  \/ sess.login = "await" /\ Settled(LoginReq)

\* ---------------------------------------------------- request interceptor
\* api.interceptors.request.use: attach the stored token when there is one
RequestInterceptor(r, hdr) ==
  IF ViaApi(r) /\ store.token # NoToken THEN store.token ELSE hdr

\* The config the caller hands to axios: the layout's unread-count query for
\* slot 1, the order page's refund for the other page slots, the refresh post
\* for AuthGuard and refreshAccessToken.
Original(r) ==
  IF r = 1
  THEN [method |-> "GET", url |-> <<"/admin/notifications/unread-count">>,
        body |-> <<>>, key |-> <<>>]
  ELSE IF IsPage(r)
  THEN [method |-> "POST", url |-> <<"/admin/orders/", "i", "1", "/refund">>,
        body |-> <<"{\"amount\":\"", "n", "\"}">>,
        key |-> <<"admin-order", ":", "i", "1", ":", "refund">>]
  ELSE IF r = LoginReq
  THEN [method |-> "POST", url |-> <<"/auth/login">>,
        body |-> <<"{email,password}">>, key |-> <<>>]
  ELSE IF r = LogoutReq
  THEN [method |-> "POST", url |-> <<"/auth/logout">>, body |-> <<"{}">>, key |-> <<>>]
  ELSE [method |-> "POST", url |-> <<"/auth/refresh">>, body |-> <<"{}">>, key |-> <<>>]

RetryConfigNoKey(cfg) == [cfg EXCEPT !.key = <<>>]

\* `return api(original)`: the retry is made with the config object of the
\* failed attempt
RetryConfig(cfg) == cfg

\* axios transmits the request cfg with Authorization header h; hdr is the header
\* of the transmission in flight and is dropped with it when the answer arrives
Transmit(rq, h, cfg) ==
  [rq EXCEPT !.st = "inflight", !.sent = @ + 1, !.hdr = h, !.joined = 0, !.recv = NoToken,
             !.wire = cfg]

\* ------------------------------------------------------ refreshAccessToken
StartsRefreshAlways(rf) == TRUE

\* `if (!refreshing)`: a refresh call is started only when the slot is empty
StartsRefresh(rf) == rf = 0

RefreshFailedNoThrow(rq, token) == rq.st # "resolved"

\* the async body throws: the post was rejected, or `if (!token) throw`
RefreshFailed(rq, token) == rq.st # "resolved" \/ token = NoToken

DeliveredStale(token, s) == s.token

\* `return token`: the value the promise hands to the awaiting handlers
\* (s is the auth store as it was before the body wrote to it)
Delivered(token, s) == token

SlotKept(o, failed) == o

SlotKeptOnFailure(o, failed) == IF failed THEN o ELSE 0

\* `.finally(() => { refreshing = null })`: what the slot holds once refresh o
\* has settled
SlotAfterSettle(o, failed) == 0

\* extractAccessToken(res.data)
extractAccessToken(data) == data.token

\* handlers awaiting the promise of refresh o
Waiters(o) == {r \in ReqIds : req[r].st = "awaitRefresh" /\ req[r].joined = o}

\* ---------------------------------------------------- response interceptor
AlreadyRetriedNever(rq) == FALSE

\* `if (original._retry) return Promise.reject(err)`
AlreadyRetried(rq) == rq.retry

\* `if (reqUrl.includes(endpoints.auth.refresh)) return Promise.reject(err)` (v2 only)
SkipsRefreshUrl(r) == build = "v2" /\ IsRefreshUrl(r)

\* the awaiting code has taken the outcome; response and error objects are dropped
\* (the count of transmissions is kept)
Consumed(rq) == [IdleReq EXCEPT !.st = "done", !.sent = rq.sent]

Reject(rq, e) == [rq EXCEPT !.st = "rejected", !.err = e, !.hdr = NoToken, !.joined = 0]

\* The backend answers request r with 401 and the error handler of the response
\* interceptor runs up to its `await refreshAccessToken()`.
Respond401(r) ==
  /\ ~MicroPending
  /\ req[r].st = "inflight"
  /\ IF ~ViaApi(r) \/ SkipsRefreshUrl(r) \/ AlreadyRetried(req[r])
     THEN /\ req' = [req EXCEPT ![r] = Reject(@, "own401")]
          /\ UNCHANGED <<refreshing, ops, nOps>>
     ELSE IF StartsRefresh(refreshing)
     THEN /\ nOps < MaxRefresh
          /\ Cardinality({q \in ReqIds : req[q].st # "idle"}) < MaxReqs
          /\ LET o == nOps + 1 IN
             /\ nOps' = o
             /\ refreshing' = o
             /\ ops' = [ops EXCEPT ![o] = [IdleOp EXCEPT !.st = "pending",
                                                          !.forTok = req[r].hdr]]
             /\ req' = [req EXCEPT
                  ![r] = [@ EXCEPT !.retry = TRUE, !.st = "awaitRefresh", !.joined = o,
                                   !.hdr = NoToken],
                  ![RtReq(o)] = Transmit(IdleReq, RequestInterceptor(RtReq(o), NoToken),
                                         Original(RtReq(o)))]
     ELSE /\ req' = [req EXCEPT
                  ![r] = [@ EXCEPT !.retry = TRUE, !.st = "awaitRefresh",
                                   !.joined = refreshing, !.hdr = NoToken]]
          /\ UNCHANGED <<refreshing, ops, nOps>>
  /\ href' = <<>>
  /\ routerNav' = <<>>
  /\ UNCHANGED <<build, store, runs, cur, ok, loc, idemVars, sessVars, catVars, dlgVars, formVars>>

\* The backend answers request r with 2xx.  A refresh answer carries a fresh
\* access token or none, and (for AuthGuard) possibly the user.
RespondOk(r, withToken, user) ==
  /\ ~MicroPending
  /\ req[r].st = "inflight"
  /\ req' = [req EXCEPT ![r] = [@ EXCEPT !.st = "resolved", !.hdr = NoToken,
                !.data = [token |-> IF (IsRefreshUrl(r) \/ r = LoginReq) /\ withToken
                                    THEN IssuedToken(r, req[r].sent) ELSE NoToken,
                          user  |-> user]]]
  /\ href' = <<>>
  /\ routerNav' = <<>>
  /\ UNCHANGED <<build, store, refreshing, ops, nOps, runs, cur, ok, loc,
                 idemVars, sessVars, catVars, dlgVars, formVars>>

\* An error answer other than 401, or no answer at all (network error, timeout):
\* `status !== 401`, the response interceptor passes the error on.
RespondErr(r) ==
  /\ ~MicroPending
  /\ req[r].st = "inflight"
  /\ req' = [req EXCEPT ![r] = Reject(@, "ownError")]
  /\ href' = <<>>
  /\ routerNav' = <<>>
  /\ UNCHANGED <<build, store, refreshing, ops, nOps, runs, cur, ok, loc,
                 idemVars, sessVars, catVars, dlgVars, formVars>>

\* The async body of refreshAccessToken resumes after its post, then `.finally`
\* empties the slot, then the handlers awaiting the promise are scheduled.
RefreshSettle(o) ==
  /\ ops[o].st = "pending"
  /\ Settled(RtReq(o))
  /\ LET rq    == req[RtReq(o)]
         token == extractAccessToken(rq.data) IN
     IF ~RefreshFailed(rq, token)
     THEN /\ store' = setAccessToken(store, token)
          /\ ops' = [ops EXCEPT ![o] = [@ EXCEPT !.st = "ok", !.token = token]]
          /\ req' = [r \in ReqIds |->
                       IF r \in Waiters(o)
                       THEN [req[r] EXCEPT !.st = "resumeOk",
                                           !.recv = Delivered(token, store)]
                       ELSE IF r = RtReq(o) THEN Consumed(req[r]) ELSE req[r]]
     ELSE /\ store' = store
          /\ ops' = [ops EXCEPT ![o] = [@ EXCEPT !.st = "failed"]]
          /\ req' = [r \in ReqIds |->
                       IF r \in Waiters(o)
                       THEN [req[r] EXCEPT !.st = "resumeFail"]
                       ELSE IF r = RtReq(o) THEN Consumed(req[r]) ELSE req[r]]
  /\ refreshing' = SlotAfterSettle(o, RefreshFailed(req[RtReq(o)],
                                                    extractAccessToken(req[RtReq(o)].data)))
  /\ href' = <<>>
  /\ routerNav' = <<>>
  /\ UNCHANGED <<build, nOps, runs, cur, ok, loc, idemVars, sessVars, catVars, dlgVars, formVars>>

\* The handlers awaiting one promise resume one after the other within the same
\* microtask checkpoint; their effects commute, so they are run in request order.
NextResumed(r) ==
  /\ req[r].st \in {"resumeOk", "resumeFail"}
  /\ \A q \in ReqIds : req[q].st \in {"resumeOk", "resumeFail"} => r <= q

\* try-branch after the await: set Authorization and `return api(original)`
WaiterRetry(r) ==
  /\ NextResumed(r)
  /\ req[r].st = "resumeOk"
  /\ req' = [req EXCEPT ![r] = Transmit(@, RequestInterceptor(r, req[r].recv),
                                        RetryConfig(req[r].wire))]
  /\ href' = <<>>
  /\ routerNav' = <<>>
  /\ UNCHANGED <<build, store, refreshing, ops, nOps, runs, cur, ok, loc,
                 idemVars, sessVars, catVars, dlgVars, formVars>>

InterceptorNextRaw(l) == LoginPrefix \o OrAdmin(l.pathname \o l.search)

\* the `next` the interceptor builds from window.location
InterceptorNext(l) == LoginPrefix \o encodeURIComponent(OrAdmin(l.pathname \o l.search))

\* `return Promise.reject(e)`: the handler rejects with the refresh's error
CatchRejects(rq) == Reject(rq, "refreshError")

\* catch-branch: the refresh failed
WaiterFail(r) ==
  /\ NextResumed(r)
  /\ req[r].st = "resumeFail"
  /\ store' = clearAll(store)
  /\ href' = InterceptorNext(loc)
  /\ req' = [req EXCEPT ![r] = CatchRejects(@)]
  /\ routerNav' = <<>>
  /\ UNCHANGED <<build, refreshing, ops, nOps, runs, cur, ok, loc,
                 idemVars, sessVars, catVars, dlgVars, formVars>>

\* ----------------------------------------------------------------- pages
\* A page (or, for slot 1, the layout's unread-count query) sends a request.
PageSend(p) ==
  /\ ~MicroPending
  /\ cur >= 1
  /\ p = 1 \/ ok
  /\ req[p].st = "idle"
  /\ Cardinality({q \in ReqIds : req[q].st # "idle"}) < MaxReqs
  /\ req' = [req EXCEPT ![p] = Transmit(IdleReq, RequestInterceptor(p, NoToken),
                                        Original(p))]
  /\ href' = <<>>
  /\ routerNav' = <<>>
  /\ UNCHANGED <<build, store, refreshing, ops, nOps, runs, cur, ok, loc,
                 idemVars, sessVars, catVars, dlgVars, formVars>>

\* ------------------------------------------------------------- AuthGuard
WrongRoleNever(me) == FALSE

\* `me?.role && me.role !== "ADMIN"`
WrongRole(me) == me # None /\ me # "ADMIN"

\* the `next` AuthGuard builds from usePathname()
GuardNext(pathname) == LoginPrefix \o encodeURIComponent(OrAdmin(pathname))

\* The effect runs: on mount, and again when the pathname changes (the cleanup
\* of the previous run clears its `alive`).  l is the location the browser is at.
GuardRun(l) ==
  /\ ~MicroPending
  /\ cur < MaxRuns
  /\ IF cur = 0 THEN l = loc ELSE l.pathname # loc.pathname
  /\ loc' = l
  /\ cur' = cur + 1
  /\ LET k  == cur + 1
         pn == l.pathname
         rs == [j \in 1..MaxRuns |->
                  IF j = cur THEN [runs[j] EXCEPT !.alive = FALSE] ELSE runs[j]] IN
     IF store.token # NoToken
     THEN /\ runs' = [rs EXCEPT ![k] = [pc |-> "done", alive |-> TRUE, pathname |-> <<>>]]
          /\ req' = req
          /\ IF WrongRole(store.me)
             THEN /\ store' = clearAll(store)
                  /\ routerNav' = LoginPath
                  /\ ok' = FALSE
             ELSE /\ ok' = TRUE
                  /\ store' = store
                  /\ routerNav' = <<>>
     ELSE /\ Cardinality({q \in ReqIds : req[q].st # "idle"}) < MaxReqs
          /\ runs' = [rs EXCEPT ![k] = [pc |-> "await", alive |-> TRUE, pathname |-> pn]]
          /\ req' = [req EXCEPT ![GuardReq(k)] =
                        Transmit(IdleReq, RequestInterceptor(GuardReq(k), NoToken),
                                 Original(GuardReq(k)))]
          /\ ok' = FALSE
          /\ store' = store
          /\ routerNav' = <<>>
  /\ href' = <<>>
  /\ UNCHANGED <<build, refreshing, ops, nOps, idemVars, sessVars, catVars, dlgVars, formVars>>

\* extractToken(res)
extractToken(rq) == IF rq.st = "resolved" THEN rq.data.token ELSE NoToken

\* run k resumes after `await api.post(endpoints.auth.refresh, {})`
GuardContinue(k) ==
  /\ runs[k].pc = "await"
  /\ Settled(GuardReq(k))
  /\ runs' = [runs EXCEPT ![k] = [@ EXCEPT !.pc = "done", !.pathname = <<>>]]
  /\ LET rq       == req[GuardReq(k)]
         newToken == extractToken(rq)
         s1       == setAccessToken(store, newToken)
         s2       == IF rq.data.user # None THEN setMe(s1, rq.data.user) ELSE s1 IN
     IF newToken # NoToken
     THEN IF WrongRole(s2.me)
          THEN /\ store' = clearAll(s2)
               /\ routerNav' = LoginPath
               /\ ok' = ok
          ELSE /\ store' = s2
               /\ routerNav' = <<>>
               /\ ok' = IF runs[k].alive THEN TRUE ELSE ok
     ELSE /\ store' = clearAll(store)
          /\ routerNav' = GuardNext(runs[k].pathname)
          /\ ok' = ok
  /\ req' = [req EXCEPT ![GuardReq(k)] = Consumed(@)]
  /\ href' = <<>>
  /\ UNCHANGED <<build, refreshing, ops, nOps, cur, loc, idemVars, sessVars, catVars, dlgVars, formVars>>

\* ------------------------------------------------------ the specification
NextAuth ==
  \/ \E r \in ReqIds : Respond401(r)
  \/ \E r \in ReqIds, w \in BOOLEAN, u \in {None} \cup Roles :
        /\ (IsGuard(r) /\ w) \/ u = None
        /\ IsRefreshUrl(r) \/ ~w
        /\ RespondOk(r, w, u)
  \/ \E r \in ReqIds : RespondErr(r)
  \/ \E o \in 1..MaxRefresh : RefreshSettle(o)
  \/ \E r \in ReqIds : WaiterRetry(r)
  \/ \E r \in ReqIds : WaiterFail(r)
  \/ \E p \in PageIds : PageSend(p)
  \/ \E l \in Locations : GuardRun(l)
  \/ \E k \in 1..MaxRuns : GuardContinue(k)

SpecAuth == Init /\ [][NextAuth]_vars

\* ------------------------------------------------------- logout and login
\* index of the first c in t (0 if there is none)
FirstIdx(t, c) ==
  IF \E i \in 1..Len(t) : t[i] = c
  THEN CHOOSE i \in 1..Len(t) : t[i] = c /\ \A j \in 1..(i - 1) : t[j] # c
  ELSE 0

\* the location a same-origin target such as /login?next=... leads to
ParseUrl(t) ==
  LET q == FirstIdx(t, "?") IN
  IF q = 0 THEN [pathname |-> t, search |-> <<>>]
  ELSE [pathname |-> SubSeq(t, 1, q - 1), search |-> SubSeq(t, q, Len(t))]

\* useSearchParams().get("next"): the decoded value, <<>> for null
SearchGetNext(search) ==
  IF Len(search) >= 6 /\ SubSeq(search, 1, 6) = <<"?", "n", "e", "x", "t", "=">>
  THEN LET rest == SubSeq(search, 7, Len(search))
           amp  == FirstIdx(rest, "&")
           raw  == IF amp = 0 THEN rest ELSE SubSeq(rest, 1, amp - 1) IN
       decodeURIComponent(raw)
  ELSE <<>>

safeNextNoQuery(target) ==
  IF target = <<>> THEN AdminPath
  ELSE IF Head(target) # "/" THEN AdminPath
  ELSE IF Len(target) >= 2 /\ target[2] = "/" THEN AdminPath
  ELSE ParseUrl(target).pathname

safeNextOneSlash(target) ==
  IF target = <<>> THEN AdminPath
  ELSE IF Head(target) # "/" THEN AdminPath
  ELSE target

\* safeNext of the login page
safeNext(target) ==
  IF target = <<>> THEN AdminPath
  ELSE IF Head(target) # "/" THEN AdminPath
  ELSE IF Len(target) >= 2 /\ target[2] = "/" THEN AdminPath
  ELSE target

\* humanLoginError: "wrong" is the wrong-credentials message (status 401),
\* "other" any of the others.  A login that resolved without a token throws an
\* Error that has no response; the error of a failed refresh carries the status
\* the refresh post was answered with (refresh401 says whether that was 401).
humanLoginError(rq, refresh401) ==
  IF rq.st = "resolved" THEN "other"
  ELSE IF rq.err = "own401" THEN "wrong"
  ELSE IF rq.err = "refreshError" /\ refresh401 THEN "wrong"
  ELSE "other"

\* the layout's logout(), up to `await api.post(endpoints.auth.logout, {})`
Logout ==
  /\ ~MicroPending
  /\ sess.doc = "admin"
  /\ ok
  /\ sess.logout = "idle"
  /\ req[LogoutReq].st = "idle"
  /\ Cardinality({q \in ReqIds : req[q].st # "idle"}) < MaxReqs
  /\ req' = [req EXCEPT ![LogoutReq] =
                Transmit(IdleReq, RequestInterceptor(LogoutReq, NoToken),
                         Original(LogoutReq))]
  /\ sess' = [sess EXCEPT !.logout = "await"]
  /\ href' = <<>>
  /\ routerNav' = <<>>
  /\ UNCHANGED <<build, store, refreshing, ops, nOps, runs, cur, ok, loc, idemVars,
                 catVars, dlgVars, formVars>>

\* logout() resumes, whatever the answer was: the `finally` block.  The
\* navigation it starts is pending until the document is replaced.
LogoutContinue ==
  /\ sess.logout = "await"
  /\ Settled(LogoutReq)
  /\ store' = clearAll(store)
  /\ href' = LoginPath
  /\ sess' = [sess EXCEPT !.logout = "done", !.nav = LoginPath, !.loggedOut = TRUE]
  /\ req' = [req EXCEPT ![LogoutReq] = Consumed(@)]
  /\ routerNav' = <<>>
  /\ UNCHANGED <<build, refreshing, ops, nOps, runs, cur, ok, loc, idemVars, catVars, dlgVars, formVars>>

\* The navigation a window.location.href assignment started is committed: the
\* login document replaces the current one.  Everything in memory is gone (the
\* requests in flight, the slot `refreshing`, the components); localStorage
\* stays.  `from` remembers where a /login?next= redirect was made.
LoginLoad ==
  /\ ~MicroPending
  /\ sess.loads < MaxLoads
  /\ LET target == IF href # <<>> THEN href ELSE sess.nav
         l      == ParseUrl(target) IN
     /\ l.pathname = LoginPath
     /\ loc' = l
     /\ sess' = [IdleSess EXCEPT
                   !.doc = "login", !.loads = sess.loads + 1,
                   !.from = IF SearchGetNext(l.search) # <<>>
                            THEN loc.pathname \o loc.search ELSE <<>>,
                   !.nextParam = SearchGetNext(l.search),
                   !.loggedOut = sess.loggedOut]
  /\ req' = [r \in ReqIds |-> IdleReq]
  /\ ops' = [o \in 1..MaxRefresh |-> IdleOp]
  /\ nOps' = 0
  /\ refreshing' = 0
  /\ runs' = [k \in 1..MaxRuns |-> IdleRun]
  /\ cur' = 0
  /\ ok' = FALSE
  /\ href' = <<>>
  /\ routerNav' = <<>>
  /\ UNCHANGED <<build, store, idemVars, catVars, dlgVars, formVars>>

\* query strings a link to /login can carry: none, an empty `next`, a path,
\* the root, a protocol-relative target written plainly, percent-encoded and
\* half encoded, and a target that is no path
NextSearches ==
  { <<>>,
    <<"?", "n", "e", "x", "t", "=">>,
    <<"?", "n", "e", "x", "t", "=", "%", "2", "F", "a">>,
    <<"?", "n", "e", "x", "t", "=", "/">>,
    <<"?", "n", "e", "x", "t", "=", "/", "/", "e">>,
    <<"?", "n", "e", "x", "t", "=", "%", "2", "F", "%", "2", "F", "e">>,
    <<"?", "n", "e", "x", "t", "=", "/", "%", "2", "F", "e">>,
    <<"?", "n", "e", "x", "t", "=", "e">> }

\* the browser opens /login<search> from a link or the address bar: a new
\* document, LoginClient renders and reads the `next` parameter
LoginOpen(search) ==
  /\ ~MicroPending
  /\ sess.loads < MaxLoads
  /\ loc' = [pathname |-> LoginPath, search |-> search]
  /\ sess' = [IdleSess EXCEPT
                !.doc = "login", !.loads = sess.loads + 1,
                !.nextParam = SearchGetNext(search),
                !.loggedOut = sess.loggedOut]
  /\ req' = [r \in ReqIds |-> IdleReq]
  /\ ops' = [o \in 1..MaxRefresh |-> IdleOp]
  /\ nOps' = 0
  /\ refreshing' = 0
  /\ runs' = [k \in 1..MaxRuns |-> IdleRun]
  /\ cur' = 0
  /\ ok' = FALSE
  /\ href' = <<>>
  /\ routerNav' = <<>>
  /\ UNCHANGED <<build, store, idemVars, catVars, dlgVars, formVars>>

\* onSubmit of the login form with a well-formed e-mail and a password, up to
\* `await api.post(endpoints.auth.login, ...)`
LoginSubmit ==
  /\ ~MicroPending
  /\ sess.doc = "login"
  /\ sess.login = "idle"
  /\ sess.nav = <<>>
  /\ req[LoginReq].st \in {"idle", "done"}
  /\ Cardinality({q \in ReqIds \ {LoginReq} : req[q].st # "idle"}) < MaxReqs - 1
  /\ req' = [req EXCEPT ![LoginReq] =
                Transmit(IdleReq, RequestInterceptor(LoginReq, NoToken),
                         Original(LoginReq))]
  /\ sess' = [sess EXCEPT !.login = "await", !.formErr = "none", !.password = "typed"]
  /\ href' = <<>>
  /\ routerNav' = <<>>
  /\ UNCHANGED <<build, store, refreshing, ops, nOps, runs, cur, ok, loc, idemVars,
                 catVars, dlgVars, formVars>>

\* onSubmit resumes after the await: the rest of `try`, `catch` and `finally`.
\* A successful login starts the navigation to `next`.
LoginContinue(refresh401) ==
  /\ sess.login = "await"
  /\ Settled(LoginReq)
  /\ LET rq    == req[LoginReq]
         token == IF rq.st = "resolved" THEN rq.data.token ELSE NoToken IN
     IF token # NoToken
     THEN /\ store' = setMe(setAccessToken(store, token), rq.data.user)
          /\ routerNav' = safeNext(sess.nextParam)
          /\ sess' = [sess EXCEPT !.login = "idle", !.loggedOut = FALSE,
                                  !.nav = safeNext(sess.nextParam)]
     ELSE /\ store' = store
          /\ routerNav' = <<>>
          /\ sess' = [sess EXCEPT
                        !.login = "idle",
                        !.formErr = humanLoginError(rq, refresh401),
                        !.password = IF humanLoginError(rq, refresh401) = "wrong"
                                     THEN "cleared" ELSE @]
  /\ req' = [req EXCEPT ![LoginReq] = Consumed(@)]
  /\ href' = <<>>
  /\ UNCHANGED <<build, refreshing, ops, nOps, runs, cur, ok, loc, idemVars, catVars, dlgVars, formVars>>

\* the admin layout is mounted and AuthGuard's effect runs for the first time
Mount ==
  /\ sess.doc = "admin"
  /\ cur = 0
  /\ GuardRun(loc)

NextLogin ==
  \/ Mount
  \/ \E p \in PageIds : PageSend(p)
  \/ \E r \in ReqIds : Respond401(r)
  \/ \E r \in ReqIds, w \in BOOLEAN, u \in {None} \cup Roles :
        /\ (r = LoginReq /\ w) \/ u = None
        /\ IsRefreshUrl(r) \/ r = LoginReq \/ ~w
        /\ RespondOk(r, w, u)
  \/ \E r \in ReqIds : RespondErr(r)
  \/ \E o \in 1..MaxRefresh : RefreshSettle(o)
  \/ \E r \in ReqIds : WaiterRetry(r)
  \/ \E r \in ReqIds : WaiterFail(r)
  \/ Logout
  \/ LogoutContinue
  \/ LoginLoad
  \/ \E search \in NextSearches : LoginOpen(search)
  \/ LoginSubmit
  \/ \E b \in BOOLEAN : LoginContinue(b)

\* an administrator is signed in and opens the admin pages
InitLogin == Init /\ store = [token |-> OldToken, me |-> "ADMIN"]

SpecLogin == InitLogin /\ [][NextLogin]_vars

\* ------------------------------------------------------ Idempotency-Key
\* Texts are sequences whose elements are single characters (data typed by the
\* admin or coming from the backend) or whole literals of the source.
Ids      == {<<"i", "1">>, <<"i", "2">>}
Names    == {<<"x">>, <<"X">>, <<"y", " ">>, <<" ">>}
Notes    == {<<>>, <<"n">>}

ToLowerChar(c) == CASE c = "X" -> "x" [] c = "Y" -> "y" [] OTHER -> c
\* String.prototype.toLowerCase
toLowerCase(t) == [i \in 1..Len(t) |-> ToLowerChar(t[i])]

\* String.prototype.trim
RECURSIVE trim(_)
trim(t) ==
  IF t = <<>> THEN t
  ELSE IF Head(t) = " " THEN trim(Tail(t))
  ELSE IF t[Len(t)] = " " THEN trim(SubSeq(t, 1, Len(t) - 1))
  ELSE t

\* Array.prototype.join(":")
RECURSIVE JoinColon(_)
JoinColon(parts) ==
  IF parts = <<>> THEN <<>>
  ELSE IF Len(parts) = 1 THEN parts[1]
  ELSE parts[1] \o <<":">> \o JoinColon(Tail(parts))

\* JSON.stringify of a category patch, {name} or {active}
JsonOfPatch(patch) ==
  IF patch.field = "name"
  THEN <<"{\"name\":\"">> \o patch.value \o <<"\"}">>
  ELSE <<"{\"active\":">> \o patch.value \o <<"}">>

CategoryPatches ==
  [field : {"name"}, value : {<<"x">>, <<"y">>}] \cup
  [field : {"active"}, value : {<<"true">>, <<"false">>}]

\* crypto.randomUUID(): the n-th value handed out; no two are equal
randomUUID(n) == <<"uuid-", ToString(n)>>

\* stableKey of the category pages: `${prefix}:${parts.join(":")}`
stableKey(prefix, parts) == <<prefix, ":">> \o JoinColon(parts)

IdemKeyNone(id, action) == <<>>

\* IdemKey of the inbox page
IdemKey(id, action) == <<"admin-inbox", ":">> \o id \o <<":", action>>

\* idempotencyKey of the order pages
idempotencyKey(orderId, action) == <<"admin-order", ":">> \o orderId \o <<":", action>>

\* `x || undefined`
OrUndefined(x) == IF x = <<>> THEN <<"undefined">> ELSE x

\* a page hands a mutation request to axios
Submit(m) ==
  /\ Len(muts) < MaxMuts
  /\ muts' = Append(muts, m)

\* categories page, current revision: patchM.mutate({id, patch, opId: crypto.randomUUID()})
patchM(id, patch) ==
  /\ nUuid < MaxUuid
  /\ nUuid' = nUuid + 1
  /\ LET opId == randomUUID(nUuid + 1) IN
     Submit([mutation |-> "patchM", id |-> id, action |-> patch.field,
             method |-> "PATCH", url |-> <<"/categories/">> \o id,
             body |-> JsonOfPatch(patch),
             key |-> stableKey("cat-patch", <<id, opId>>)])
  /\ UNCHANGED <<authVars, sessVars, catVars, dlgVars, formVars>>

\* categories page, earlier revision: the key carries JSON.stringify(vars.patch)
patchMOld(id, patch) ==
  /\ Submit([mutation |-> "patchMOld", id |-> id, action |-> patch.field,
             method |-> "PATCH", url |-> <<"/categories/">> \o id,
             body |-> JsonOfPatch(patch),
             key |-> stableKey("cat-patch", <<id, JsonOfPatch(patch)>>)])
  /\ UNCHANGED <<authVars, sessVars, catVars, dlgVars, formVars, nUuid>>

\* categories page: createM with the name typed in the form
createM(newName) ==
  /\ LET name == trim(newName) IN
     /\ name # <<>>
     /\ Submit([mutation |-> "createM", id |-> <<>>, action |-> "create",
                method |-> "POST", url |-> <<"/categories">>,
                body |-> name,
                key |-> stableKey("cat-create", <<toLowerCase(name)>>)])
  /\ UNCHANGED <<authVars, sessVars, catVars, dlgVars, formVars, nUuid>>

\* inbox page: approveSeller, rejectSeller, markPaid, rejectPayout
InboxActions ==
  { [name |-> "approve-seller", path |-> <<"/admin/sellers/">>, tail |-> <<"/approve">>],
    [name |-> "reject-seller",  path |-> <<"/admin/sellers/">>, tail |-> <<"/reject">>],
    [name |-> "payout-paid",    path |-> <<"/admin/payouts/">>, tail |-> <<"/paid">>],
    [name |-> "payout-reject",  path |-> <<"/admin/payouts/">>, tail |-> <<"/reject">>] }

inboxM(a, id, text) ==
  /\ a.name = "approve-seller" => text = <<>>
  /\ Submit([mutation |-> "inboxM", id |-> id, action |-> a.name,
             method |-> "POST", url |-> a.path \o id \o a.tail,
             body |-> text,
             key |-> IdemKey(id, a.name)])
  /\ UNCHANGED <<authVars, sessVars, catVars, dlgVars, formVars, nUuid>>

\* the request decideM's mutationFn sends
decideRequest(id, action, note) ==
  [mutation |-> "decideM", id |-> id, action |-> action,
   method |-> "PATCH", url |-> <<"/admin/orders/">> \o id,
   body |-> <<action, ",">> \o OrUndefined(trim(note)),
   key |-> idempotencyKey(id, action)]

\* order page: decideM("approve" | "reject") with the note of the form
decideM(id, action, note) ==
  /\ Submit(decideRequest(id, action, note))
  /\ UNCHANGED <<authVars, sessVars, catVars, dlgVars, formVars, nUuid>>

\* the request refundM's mutationFn sends
refundRequest(id, refundAmount, refundReason) ==
  [mutation |-> "refundM", id |-> id, action |-> "refund",
   method |-> "POST", url |-> <<"/admin/orders/">> \o id \o <<"/refund">>,
   body |-> OrUndefined(refundAmount) \o <<",">> \o OrUndefined(refundReason),
   key |-> idempotencyKey(id, "refund")]

\* order page: refundM with the amount and reason of the form
refundM(id, refundAmount, refundReason) ==
  /\ Submit(refundRequest(id, refundAmount, refundReason))
  /\ UNCHANGED <<authVars, sessVars, catVars, dlgVars, formVars, nUuid>>

\* String.prototype.replace(",", "."): the first comma only
RECURSIVE replaceComma(_)
replaceComma(t) ==
  IF t = <<>> THEN t
  ELSE IF Head(t) = "," THEN <<".">> \o Tail(t)
  ELSE <<Head(t)>> \o replaceComma(Tail(t))

\* `a || b` on strings
OrElse(a, b) == IF a = <<>> THEN b ELSE a

Skus   == {<<>>, <<"s">>}
Prices == {<<"1">>, <<"1", ",", "5">>}

\* new-product page: createM with the sku, name and price of the form
productCreateM(sku, name, price) ==
  /\ LET payload == [sku |-> trim(sku), name |-> trim(name),
                     price |-> replaceComma(trim(price))] IN
     Submit([mutation |-> "productCreateM", id |-> <<>>, action |-> "create",
             method |-> "POST", url |-> <<"/products">>,
             body |-> payload.sku \o <<",">> \o payload.name \o <<",">> \o payload.price,
             key |-> stableKey("product-create",
                               <<OrElse(payload.sku, OrElse(payload.name, <<"no-key">>))>>)])
  /\ UNCHANGED <<authVars, sessVars, catVars, dlgVars, formVars, nUuid>>

\* crypto.subtle.digest("SHA-256", ...) as an ideal hash: equal digests only for
\* equal inputs
Digest(json) == <<"sha256(">> \o json \o <<")">>

\* idemKey of the product page: `${prefix}:${b64 of the digest of the payload}`
idemKey(prefix, json) == prefix \o <<":">> \o Digest(json)

\* product page: saveM with the price of the form (sku and name are required)
saveM(id, price) ==
  /\ LET payload == <<"{\"price\":\"">> \o replaceComma(trim(price)) \o <<"\"}">> IN
     Submit([mutation |-> "saveM", id |-> id, action |-> "update",
             method |-> "PATCH", url |-> <<"/products/">> \o id,
             body |-> payload,
             key |-> idemKey(<<"product-update:">> \o id, payload)])
  /\ UNCHANGED <<authVars, sessVars, catVars, dlgVars, formVars, nUuid>>

\* product page: deleteImgM
deleteImgM(id, imageId) ==
  /\ Submit([mutation |-> "deleteImgM", id |-> id, action |-> "delete",
             method |-> "DELETE",
             url |-> <<"/products/">> \o id \o <<"/images/">> \o imageId,
             body |-> <<>>,
             key |-> <<"prod-img-del:">> \o id \o <<":">> \o imageId])
  /\ UNCHANGED <<authVars, sessVars, catVars, dlgVars, formVars, nUuid>>

\* the request disableM's mutationFn sends
disableRequest(id) ==
  [mutation |-> "disableM", id |-> id, action |-> "disable",
   method |-> "PATCH",
   url |-> <<"/admin/coupons/">> \o id \o <<"/disable">>,
   body |-> <<"{}">>,
   key |-> <<"admin-coupon-disable:">> \o id]

\* coupons page: disableM
disableM(id) ==
  /\ Submit(disableRequest(id))
  /\ UNCHANGED <<authVars, sessVars, catVars, dlgVars, formVars, nUuid>>

NextIdem ==
  \/ \E id \in Ids, patch \in CategoryPatches : patchM(id, patch)
  \/ \E id \in Ids, patch \in CategoryPatches : patchMOld(id, patch)
  \/ \E n \in Names : createM(n)
  \/ \E a \in InboxActions, id \in Ids, t \in Notes : inboxM(a, id, t)
  \/ \E id \in Ids, a \in {"approve", "reject"}, n \in Notes : decideM(id, a, n)
  \/ \E id \in Ids, amt \in Notes, rsn \in Notes : refundM(id, amt, rsn)
  \/ \E sku \in Skus, n \in Notes, pr \in Prices : productCreateM(sku, n, pr)
  \/ \E id \in Ids, pr \in Prices : saveM(id, pr)
  \/ \E id \in Ids : deleteImgM(id, <<"g", "1">>)
  \/ \E id \in Ids : disableM(id)

\* the key builders read neither the client revision nor the auth store
InitIdem == Init /\ build = "v2" /\ store = EmptyStore

SpecIdem == InitIdem /\ [][NextIdem]_vars

\* ------------------------------------------------------ confirm dialogs
\* Approve, reject and refund of an order and disable of a coupon each sit
\* behind an AlertDialog of the item's row (or of the order's page).
DialogActions == {"approve", "reject", "refund", "disable"}

\* the mutation behind an action's Confirm button
MutationOf(a) ==
  CASE a \in {"approve", "reject"} -> "decideM"
    [] a = "refund"                -> "refundM"
    [] OTHER                       -> "disableM"

\* AlertDialogTrigger of action a on item id is clicked: the dialog opens.  The
\* trigger is disabled while the action's mutation is pending, and an open
\* dialog is modal.
DialogOpen(a, id) ==
  /\ ~dlg.open
  /\ MutationOf(a) \notin dlg.busy
  /\ dlg' = [dlg EXCEPT !.open = TRUE, !.action = a, !.id = id, !.last = "none"]
  /\ UNCHANGED <<authVars, idemVars, sessVars, catVars, formVars>>

\* AlertDialogCancel is clicked: the dialog closes
DialogCancel ==
  /\ dlg.open
  /\ dlg' = [dlg EXCEPT !.open = FALSE, !.action = "", !.id = <<>>,
                        !.last = "cancel"]
  /\ UNCHANGED <<authVars, idemVars, sessVars, catVars, formVars>>

onClickItemFirst(d) == <<"i", "1">>

\* the item the Confirm button's onClick hands to mutate: the row's o.id or
\* c.id, the page's id on the order page
onClickItem(d) == d.id

\* AlertDialogAction is clicked: its onClick calls mutate once, the dialog
\* closes.  note, amount and reason are what the order page's form holds.
DialogConfirm(note, amount, reason) ==
  /\ dlg.open
  /\ LET id == onClickItem(dlg) IN
     Submit(CASE dlg.action \in {"approve", "reject"} ->
                   decideRequest(id, dlg.action, note)
              [] dlg.action = "refund" -> refundRequest(id, amount, reason)
              [] OTHER -> disableRequest(id))
  /\ dlg' = [open |-> FALSE, action |-> "", id |-> <<>>, last |-> "confirm",
             busy |-> dlg.busy \cup {MutationOf(dlg.action)}]
  /\ UNCHANGED <<authVars, sessVars, catVars, formVars, nUuid>>

\* the backend answers mutation m (2xx or error): isPending is false again
MutationSettled(m) ==
  /\ m \in dlg.busy
  /\ dlg' = [dlg EXCEPT !.busy = @ \ {m}]
  /\ UNCHANGED <<authVars, idemVars, sessVars, catVars, formVars>>

NextDialog ==
  \/ \E a \in DialogActions, id \in Ids : DialogOpen(a, id)
  \/ DialogCancel
  \/ \E note \in Notes, amount \in Notes, reason \in Notes :
        DialogConfirm(note, amount, reason)
  \/ \E m \in {"decideM", "refundM", "disableM"} : MutationSettled(m)

\* an administrator is on the orders or coupons pages
InitDialog == Init /\ build = "v2" /\ store = [token |-> OldToken, me |-> "ADMIN"]

SpecDialog == InitDialog /\ [][NextDialog]_vars

\* ------------------------------------------------------- product forms
\* the categories the selects and checkboxes offer ("" is "no main category")
Cats == {"a", "b", "c"}

\* Array.prototype.includes
Includes(ids, x) == \E i \in 1..Len(ids) : ids[i] = x

\* `ids.filter((x) => x !== v)`
FilterOut(ids, v) == SelectSeq(ids, LAMBDA x : x # v)

\* toggleCategoryId(id, prev)
toggleCategoryId(id, prev) ==
  IF Includes(prev, id) THEN FilterOut(prev, id) ELSE Append(prev, id)

\* Array.from(new Set(ids)): the first occurrence of each element, in order
RECURSIVE ArrayFromSet(_)
ArrayFromSet(ids) ==
  IF ids = <<>> THEN <<>>
  ELSE LET rest == ArrayFromSet(SubSeq(ids, 1, Len(ids) - 1))
           x    == ids[Len(ids)] IN
       IF Includes(rest, x) THEN rest ELSE Append(rest, x)

\* the products the backend can return: categoryId ("" for null) and
\* categoryIds (<<>> for null or missing), duplicates included
Products ==
  [categoryId : Cats \cup {""},
   categoryIds : UNION {[1..n -> Cats] : n \in 0..MaxCatIds}]

\* the admin opens the product edit page or the new-product page
OpenPage(p) ==
  /\ form' = [IdleForm EXCEPT !.page = p]
  /\ UNCHANGED <<authVars, idemVars, sessVars, catVars, dlgVars, lastPayload>>

\* edit page: the effect on [product?.id] copies the product into the form
ProductLoaded(product) ==
  /\ form.page = "edit"
  /\ ~form.loaded
  /\ LET main == product.categoryId
         ids  == IF Len(product.categoryIds) > 0 THEN product.categoryIds
                 ELSE IF main # "" THEN <<main>> ELSE <<>> IN
     form' = [form EXCEPT !.loaded = TRUE, !.categoryId = main,
                          !.categoryIds = FilterOut(ids, main)]
  /\ UNCHANGED <<authVars, idemVars, sessVars, catVars, dlgVars, lastPayload>>

onChangeKept(v, prev) == prev

\* edit page, onChange of the main-category select: the new categoryIds
onChange(v, prev) == FilterOut(prev, v)

\* onChange of the main-category select with value v; the new-product page
\* has no categoryIds state and only sets categoryId
SelectMain(v) ==
  /\ form' = [form EXCEPT
                !.categoryId = v,
                !.categoryIds = IF form.page = "edit" THEN onChange(v, @) ELSE @]
  /\ UNCHANGED <<authVars, idemVars, sessVars, catVars, dlgVars, lastPayload>>

\* edit page: the checkbox of category c, rendered for c.id !== categoryId
ToggleExtra(c) ==
  /\ form.page = "edit"
  /\ c # form.categoryId
  /\ form' = [form EXCEPT !.categoryIds = toggleCategoryId(c, @)]
  /\ UNCHANGED <<authVars, idemVars, sessVars, catVars, dlgVars, lastPayload>>

\* saveM of the edit page and createM of the new-product page build the
\* payload (the other fields are valid and left out)
Save ==
  /\ lastPayload' =
       IF form.page = "edit"
       THEN [page |-> "edit", flip |-> ~lastPayload.flip,
             categoryId |-> form.categoryId, has |-> TRUE,
             categoryIds |->
               ArrayFromSet(form.categoryIds \o
                            (IF form.categoryId # "" THEN <<form.categoryId>>
                             ELSE <<>>))]
       ELSE [page |-> "create", flip |-> ~lastPayload.flip,
             categoryId |-> form.categoryId, has |-> FALSE, categoryIds |-> <<>>]
  /\ UNCHANGED <<authVars, idemVars, sessVars, catVars, dlgVars, form>>

NextForm ==
  \/ \E p \in {"edit", "create"} : OpenPage(p)
  \/ \E product \in Products : ProductLoaded(product)
  \/ \E v \in Cats \cup {""} : SelectMain(v)
  \/ \E c \in Cats : ToggleExtra(c)
  \/ Save

\* an administrator is on a product page
InitForm == Init /\ build = "v2" /\ store = [token |-> OldToken, me |-> "ADMIN"]

SpecForm == InitForm /\ [][NextForm]_vars

\* ------------------------------------------------------- categories page
\* what the admin can do to a row: rename it, or toggle `active`
RowPatches(c) ==
  { [field |-> "name", value |-> <<"y">>],
    [field |-> "active", value |-> ~c.active] }

\* `{ ...c, ...vars.patch }` (updatedAt, which nothing reads, is left out)
ApplyPatch(c, patch) ==
  IF patch.field = "name" THEN [c EXCEPT !.name = patch.value]
  ELSE [c EXCEPT !.active = patch.value]

\* onError: `if (ctx?.prev) qc.setQueryData(categoriesKey, ctx.prev)`
Rollback(list, pat) == pat.prev

\* patchM.mutate from an enabled row: onMutate cancels the query's fetch, takes
\* the snapshot, writes the optimistic row; mutationFn sends the PATCH.
onMutate(id, patch) ==
  /\ Len(pats) < MaxPats
  /\ pendingId # id
  /\ pendingId' = id
  /\ catq' = [catq EXCEPT !.fetch = IF @ = "inflight" THEN "idle" ELSE @]
  /\ pats' = Append(pats, [id |-> id, patch |-> patch, prev |-> cache,
                           st |-> "inflight"])
  /\ cache' = [cache EXCEPT ![id] = ApplyPatch(@, patch)]
  /\ UNCHANGED <<authVars, idemVars, sessVars, dlgVars, formVars, server>>

onSettledNoRefetch(q) == q

\* onSettled: `setTimeout(() => qc.invalidateQueries(...), 800)`
onSettled(q) == [q EXCEPT !.timers = @ + 1]

\* the PATCH of patch i fails: onError, then onSettled
onError(i) ==
  /\ pats[i].st = "inflight"
  /\ cache' = Rollback(cache, pats[i])
  /\ pats' = [pats EXCEPT ![i] = [@ EXCEPT !.st = "failed"]]
  /\ pendingId' = ""
  /\ catq' = onSettled(catq)
  /\ UNCHANGED <<authVars, idemVars, sessVars, dlgVars, formVars, server>>

\* the backend applies patch i and answers 2xx: onSettled
onSuccess(i) ==
  /\ pats[i].st = "inflight"
  /\ server' = [server EXCEPT ![pats[i].id] = ApplyPatch(@, pats[i].patch)]
  /\ pats' = [pats EXCEPT ![i] = [@ EXCEPT !.st = "ok"]]
  /\ pendingId' = ""
  /\ catq' = onSettled(catq)
  /\ UNCHANGED <<authVars, idemVars, sessVars, dlgVars, formVars, cache>>

\* an 800 ms timer of onSettled fires: invalidateQueries refetches the list
Invalidate ==
  /\ catq.timers > 0
  /\ catq' = [timers |-> catq.timers - 1, fetch |-> "inflight"]
  /\ UNCHANGED <<authVars, idemVars, sessVars, dlgVars, formVars, cache, pats, pendingId, server>>

\* the list query's fetch is answered: the cache takes the backend's list
FetchDone ==
  /\ catq.fetch = "inflight"
  /\ cache' = server
  /\ catq' = [catq EXCEPT !.fetch = "idle"]
  /\ UNCHANGED <<authVars, idemVars, sessVars, dlgVars, formVars, pats, pendingId, server>>

\* the list query's fetch fails (`retry: false`): the cached list stays, the
\* query is in its error state
FetchFailed ==
  /\ catq.fetch = "inflight"
  /\ catq' = [catq EXCEPT !.fetch = "failed"]
  /\ UNCHANGED <<authVars, idemVars, sessVars, dlgVars, formVars, cache, pats, pendingId, server>>

NextCat ==
  \/ \E id \in CatIds : \E patch \in RowPatches(cache[id]) : onMutate(id, patch)
  \/ \E i \in 1..Len(pats) : onError(i)
  \/ \E i \in 1..Len(pats) : onSuccess(i)
  \/ Invalidate
  \/ FetchDone
  \/ FetchFailed

\* an administrator has the categories page open, the list is fetched
InitCat == Init /\ build = "v2" /\ store = [token |-> OldToken, me |-> "ADMIN"]

SpecCat == InitCat /\ [][NextCat]_vars

\* a timer that was set fires: the event loop runs every due setTimeout callback
SpecCatFair == SpecCat /\ WF_vars(Invalidate)

\* ================================================================ claims
PendingOps == {o \in 1..MaxRefresh : ops[o].st = "pending"}

\* C1: at most one refresh started by refreshAccessToken is pending at any time,
\* the slot `refreshing` names it, and every handler that is awaiting a refresh
\* awaits that pending one (a 401 handled meanwhile joined it).
C1_SingleFlight ==
  /\ Cardinality(PendingOps) <= 1
  /\ \A o \in PendingOps : refreshing = o
  /\ \A r \in ReqIds : req[r].st = "awaitRefresh" => req[r].joined \in PendingOps

\* two handlers share one pending refresh
C1_Witness ==
  \E r1, r2 \in ReqIds :
    /\ r1 # r2
    /\ req[r1].st = "awaitRefresh" /\ req[r2].st = "awaitRefresh"
    /\ req[r1].joined = req[r2].joined
    /\ req[r1].joined \in PendingOps

\* C2: a request is transmitted at most twice; once it is in flight as a retry,
\* its answer settles it (a 401 rejects it) without starting or joining a refresh.
C2_RetryOnce ==
  /\ [](\A r \in ReqIds : req[r].sent <= 2)
  /\ [][\A r \in ReqIds :
          (req[r].st = "inflight" /\ req[r].retry /\ req'[r] # req[r])
          => /\ req'[r].st \in {"resolved", "rejected"}
             /\ req'[r].sent = req[r].sent
             /\ nOps' = nOps
             /\ refreshing' = refreshing
             /\ ops' = ops]_vars

\* a retried request was answered 401 and rejected to its caller
C2_Witness ==
  \E r \in ReqIds : req[r].st = "rejected" /\ req[r].sent = 2 /\ req[r].err = "own401"

\* C3: when the refresh promise rejects (its post was rejected, or the answer
\* carried no token) every handler awaiting it takes the catch branch, rejects
\* with the refresh's error and does not transmit its request again.
C3_FailurePropagates ==
  /\ [][\A o \in 1..MaxRefresh :
          (/\ ops[o].st = "pending" /\ ops'[o].st # "pending"
           /\ \/ req[RtReq(o)].st = "rejected"
              \/ req[RtReq(o)].data.token = NoToken)
          => /\ ops'[o].st = "failed"
             /\ \A r \in Waiters(o) : req'[r].st = "resumeFail"]_vars
  /\ [][\A r \in ReqIds :
          (req[r].st = "resumeFail" /\ req'[r] # req[r])
          => /\ req'[r].st = "rejected"
             /\ req'[r].err = "refreshError"
             /\ req'[r].sent = req[r].sent]_vars
  /\ [][\A r \in ReqIds :
          req[r].st = "rejected"
          => /\ req'[r].st \in {"rejected", "done"}
             /\ req'[r].sent = req[r].sent]_vars

\* two handlers that awaited a failed refresh have both rejected with its error
C3_Witness ==
  \E r1, r2 \in ReqIds :
    /\ r1 # r2
    /\ req[r1].st = "rejected" /\ req[r1].err = "refreshError" /\ req[r1].sent = 1
    /\ req[r2].st = "rejected" /\ req[r2].err = "refreshError" /\ req[r2].sent = 1

\* C4: no handler awaits a refresh that is itself waiting on that handler: the
\* request a pending refresh posted is never parked in the interceptor awaiting
\* a refresh (so every request answered 401 can still settle).
C4_NoHandlerAwaitsItself ==
  \A o \in PendingOps : req[RtReq(o)].st # "awaitRefresh"

\* C5: a handler resumed by a successful refresh holds the token of the refresh
\* it had joined, which is the token the backend granted to that refresh call.
C5_SameToken ==
  \A r \in ReqIds :
    req[r].st = "resumeOk"
    => LET o == req[r].joined IN
       /\ ops[o].st = "ok"
       /\ req[r].recv = ops[o].token
       /\ req[r].recv = IssuedToken(RtReq(o), req[RtReq(o)].sent)

\* two handlers resumed by the same successful refresh
C5_Witness ==
  \E r1, r2 \in ReqIds :
    /\ r1 # r2
    /\ req[r1].st = "resumeOk" /\ req[r2].st = "resumeOk"
    /\ req[r1].joined = req[r2].joined

\* C6: a handler resumed by a successful refresh transmits its request once
\* more, as its second transmission, with the refresh's token as Authorization,
\* and that token is already in the auth store when the retry is sent.
C6_RetryWithNewToken ==
  [][\A r \in ReqIds :
       (req[r].st = "resumeOk" /\ req'[r] # req[r])
       => /\ req'[r].st = "inflight"
          /\ req'[r].sent = 2
          /\ req'[r].hdr = req[r].recv
          /\ req[r].recv # NoToken
          /\ store.token = req[r].recv]_vars

\* a retry is in flight carrying the refreshed token, which the store holds
C6_Witness ==
  \E r \in PageIds :
    /\ req[r].st = "inflight" /\ req[r].sent = 2
    /\ req[r].hdr = store.token /\ req[r].hdr \notin {NoToken, OldToken}

\* AuthGuard run k resumes from a refresh that failed
GuardFailStep(k) ==
  /\ runs[k].pc = "await" /\ runs'[k].pc = "done"
  /\ extractToken(req[GuardReq(k)]) = NoToken

\* handler r takes the catch branch of the response interceptor
InterceptorFailStep(r) == req[r].st = "resumeFail" /\ req'[r].st = "rejected"

\* C7: the step that handles a failed refresh (interceptor catch branch, or
\* AuthGuard's catch) leaves the auth store with no access token and no user.
C7_StoreCleared ==
  [][/\ \A r \in ReqIds : InterceptorFailStep(r) => store' = EmptyStore
     /\ \A k \in 1..MaxRuns : GuardFailStep(k) => store' = EmptyStore]_vars

\* the interceptor has just handled a failed refresh in a session that had a user
C7_Witness ==
  /\ href # <<>>
  /\ store = EmptyStore
  /\ \E r \in ReqIds : req[r].err = "refreshError"

\* the value of the `next` parameter of a /login?next=... target
NextParam(target) == SubSeq(target, Len(LoginPrefix) + 1, Len(target))

ReservedChars == {"/", "?", "=", "&", " "}

\* target is /login?next=<URL-encoded dest>, with a non-empty parameter
RedirectsTo(target, dest) ==
  /\ Len(target) > Len(LoginPrefix)
  /\ SubSeq(target, 1, Len(LoginPrefix)) = LoginPrefix
  /\ \A i \in 1..Len(NextParam(target)) : NextParam(target)[i] \notin ReservedChars
  /\ decodeURIComponent(NextParam(target)) = dest

C9_OneRefreshInFlight ==
  Cardinality({r \in ReqIds : IsRefreshUrl(r) /\ req[r].st = "inflight"}) <= 1

\* C10: two submissions of the same mutation with the same entity id, action
\* and payload carry the same Idempotency-Key.
C10_DeterministicKey ==
  \A i, j \in 1..Len(muts) :
    (/\ muts[i].mutation = muts[j].mutation
     /\ muts[i].id = muts[j].id
     /\ muts[i].action = muts[j].action
     /\ muts[i].body = muts[j].body)
    => muts[i].key = muts[j].key

\* C11: two submitted mutation requests that carry the same Idempotency-Key are
\* the same submission: same method, same URL and same body.
C11_SafeDedup ==
  \A i, j \in 1..Len(muts) :
    muts[i].key = muts[j].key
    => /\ muts[i].method = muts[j].method
       /\ muts[i].url = muts[j].url
       /\ muts[i].body = muts[j].body

\* C12: every POST, PATCH or DELETE a page submits carries an Idempotency-Key
\* that is a non-empty string.
C12_KeyPresent ==
  \A i \in 1..Len(muts) :
    muts[i].method \in {"POST", "PATCH", "DELETE"}
    => /\ muts[i].key # <<>>
       /\ \E k \in 1..Len(muts[i].key) : muts[i].key[k] # ""

\* a product was created with neither sku nor name, a seller was approved (a
\* POST without a body) and the keys are there
C12_Witness ==
  /\ \E i \in 1..Len(muts) :
       /\ muts[i].mutation = "productCreateM"
       /\ muts[i].key = <<"product-create", ":", "no-key">>
  /\ \E i \in 1..Len(muts) :
       /\ muts[i].action = "approve-seller"
       /\ muts[i].key # <<>>

\* C13: the retry a resumed handler issues carries the method, URL, body and
\* Idempotency-Key of the first attempt, which are those the caller gave.
C13_RetryUnchanged ==
  [][\A r \in ReqIds :
       (req[r].st = "resumeOk" /\ req'[r].st = "inflight")
       => /\ req'[r].wire = req[r].wire
          /\ req'[r].wire = Original(r)
          /\ req'[r].sent = req[r].sent + 1]_vars

\* a refund is in flight for the second time, with its key and a new token
C13_Witness ==
  \E r \in PageIds :
    /\ req[r].st = "inflight" /\ req[r].sent = 2
    /\ req[r].wire.method = "POST" /\ req[r].wire.key # <<>>
    /\ req[r].hdr \notin {NoToken, OldToken}

\* the login form resumes from a login that succeeded
LoginSuccessStep ==
  /\ sess.login = "await" /\ sess'.login = "idle"
  /\ req[LoginReq].st = "resolved" /\ req[LoginReq].data.token # NoToken

\* C14: when the login document was reached by a redirect to
\* /login?next=<encoded p>, p starting with a single "/", a login that succeeds
\* there navigates to exactly p.
C14_NextRoundTrip ==
  /\ [][(sess'.loads = sess.loads + 1 /\ sess'.from # <<>>)
        => /\ RedirectsTo(href, sess'.from)
           /\ sess'.from = loc.pathname \o loc.search]_vars
  /\ [][(/\ LoginSuccessStep
         /\ sess.from # <<>>
         /\ Head(sess.from) = "/"
         /\ Len(sess.from) >= 2 => sess.from[2] # "/")
        => routerNav' = sess.from]_vars

\* a login has just succeeded on a login page reached from a location with a
\* query string that holds reserved characters, and leads back there
C14_Witness ==
  /\ sess.doc = "login"
  /\ store.token \notin {NoToken, OldToken}
  /\ routerNav = sess.from
  /\ \E i \in 1..Len(routerNav) : routerNav[i] = "?"
  /\ \E i \in 1..Len(routerNav) : routerNav[i] = "%"

\* C15: a 401 answer to the login request rejects the login with that 401
\* without a refresh call, a write to the auth store or a redirect, and the form
\* then shows the wrong-credentials message and clears the password.
C15_Login401ReachesForm ==
  /\ [][(/\ req[LoginReq].st = "inflight" /\ req[LoginReq].sent = 1
         /\ req'[LoginReq].st \in {"awaitRefresh", "rejected"}
         /\ req'[LoginReq].err # "ownError")
        => /\ req'[LoginReq].st = "rejected"
           /\ req'[LoginReq].err = "own401"
           /\ nOps' = nOps
           /\ store' = store
           /\ href' = <<>>]_vars
  /\ [][(/\ sess.login = "await" /\ sess'.login = "idle"
         /\ req[LoginReq].st = "rejected" /\ req[LoginReq].err = "own401")
        => /\ sess'.formErr = "wrong"
           /\ sess'.password = "cleared"
           /\ sess'.doc = "login"
           /\ store' = store
           /\ routerNav' = <<>>]_vars

\* C16: from the moment logout has cleared the session until a login succeeds,
\* the auth store holds no access token.
C16_LoggedOutStaysOut ==
  sess.loggedOut => store.token = NoToken

\* C17: a step of AuthGuard that sets ok leaves an access token in the auth
\* store and a stored role that is absent or ADMIN; a run that finds a token
\* (in the store, or granted by its refresh) next to a stored non-ADMIN role
\* does not set ok, empties the store and navigates to /login.
C17_OkOnlyForAdmin ==
  /\ [][(ok' /\ (~ok \/ cur' = cur + 1))
        => /\ store'.token # NoToken
           /\ store'.me \in {None, "ADMIN"}]_vars
  /\ [][(cur' = cur + 1 /\ store.token # NoToken /\ store.me \notin {None, "ADMIN"})
        => /\ ok' = FALSE
           /\ store' = EmptyStore
           /\ routerNav' = LoginPath]_vars
  /\ [][\A k \in 1..MaxRuns :
          (/\ runs[k].pc = "await" /\ runs'[k].pc = "done"
           /\ extractToken(req[GuardReq(k)]) # NoToken
           /\ LET u == req[GuardReq(k)].data.user IN
              (IF u # None THEN u ELSE store.me) \notin {None, "ADMIN"})
          => /\ ok' = ok
             /\ store' = EmptyStore
             /\ routerNav' = LoginPath]_vars

\* AuthGuard has let an ADMIN in after restoring the session by a refresh
C17_Witness ==
  /\ ok
  /\ store.me = "ADMIN"
  /\ store.token \notin {NoToken, OldToken}
  /\ \E k \in 1..MaxRuns : k = cur /\ req[GuardReq(k)].st = "done" /\ runs[k].alive

\* handler r reaches `await refreshAccessToken()` in this step
AwaitsRefreshStep(r) == req[r].st = "inflight" /\ req'[r].st = "awaitRefresh"

\* C18 as stated: once a refresh started for a request sent with token t has
\* completed, the 401 of another request that was sent with t does not start a
\* refresh call.
C18_OneRefreshPerToken ==
  [][\A r \in ReqIds :
       (/\ AwaitsRefreshStep(r)
        /\ req[r].hdr # NoToken
        /\ \E o \in 1..MaxRefresh : ops[o].st = "ok" /\ ops[o].forTok = req[r].hdr)
       => nOps' = nOps]_vars

\* C18, amended: a 401 handled while a refresh is pending joins that refresh
\* and no refresh call is made for it; a 401 handled when none is pending (also
\* when an earlier one for the same token has completed) starts a new call and
\* awaits that one.
C18_OneRefreshWhilePending ==
  [][\A r \in ReqIds :
       AwaitsRefreshStep(r)
       => /\ ops'[req'[r].joined].st = "pending"
          /\ IF \E o \in 1..MaxRefresh : ops[o].st = "pending"
             THEN /\ nOps' = nOps
                  /\ ops[req'[r].joined].st = "pending"
             ELSE /\ nOps' = nOps + 1
                  /\ req'[r].joined = nOps'
                  /\ req'[RtReq(nOps')].st = "inflight"
                  /\ req'[RtReq(nOps')].sent = 1]_vars

\* a second refresh was started for a request sent with the token the first,
\* completed, refresh was started for
C18_Witness ==
  /\ nOps = 2
  /\ ops[1].st = "ok"
  /\ ops[2].st = "pending"
  /\ ops[1].forTok = ops[2].forTok
  /\ ops[1].forTok # NoToken

\* C19: the slot names a refresh exactly while one started by
\* refreshAccessToken is pending; the step that settles a refresh empties it,
\* on success and on failure; the first 401 handled after that starts a new one.
C19_SlotWhilePending ==
  /\ [](/\ refreshing # 0 <=> PendingOps # {}
        /\ refreshing # 0 => ops[refreshing].st = "pending")
  /\ [][\A o \in 1..MaxRefresh :
          (ops[o].st = "pending" /\ ops'[o].st \in {"ok", "failed"})
          => refreshing' = 0]_vars
  /\ [][\A r \in ReqIds :
          (AwaitsRefreshStep(r) /\ refreshing = 0)
          => /\ nOps' = nOps + 1
             /\ refreshing' = nOps'
             /\ ops'[nOps'].st = "pending"]_vars

\* after a refresh that failed, the next 401 has started a new one
C19_Witness ==
  /\ nOps = 2
  /\ ops[1].st = "failed"
  /\ refreshing = 2
  /\ ops[2].st = "pending"

\* C20: the rollback of a failed category patch leaves the rows that patches
\* started after it (in flight or succeeded) have written as they are.
C20_RollbackOnlyOwn ==
  [][\A i \in 1..Len(pats) :
       (pats[i].st = "inflight" /\ pats'[i].st = "failed")
       => \A j \in (i + 1)..Len(pats) :
            (pats[j].id # pats[i].id /\ pats[j].st \in {"inflight", "ok"})
            => cache'[pats[j].id] = cache[pats[j].id]]_vars

\* C21: while the PATCH of a category is in flight that category's row is busy
\* (pendingId names it), whatever patches were started on other rows meanwhile.
C21_BusyWhileInFlight ==
  \A i \in 1..Len(pats) : pats[i].st = "inflight" => pendingId = pats[i].id

\* run k, already superseded (its cleanup cleared `alive`), resumes in this step
SupersededResumes(k) ==
  /\ runs[k].pc = "await"
  /\ ~runs[k].alive
  /\ runs'[k].pc = "done"

\* C22: a superseded AuthGuard run has no effect when its refresh completes: it
\* leaves ok and the auth store as they are and does not navigate.
C22_SupersededNoEffect ==
  [][\A k \in 1..MaxRuns :
       SupersededResumes(k)
       => /\ ok' = ok
          /\ store' = store
          /\ routerNav' = <<>>]_vars

\* a same-origin path: starts with "/" and not with "//"
IsLocalPath(t) ==
  /\ t # <<>>
  /\ Head(t) = "/"
  /\ Len(t) >= 2 => t[2] # "/"

\* C23: a successful login navigates to a target that starts with "/" and not
\* with "//", and to /admin whenever the next parameter is missing, empty or
\* is not such a path.
C23_LocalTargetOnly ==
  [][LoginSuccessStep
     => /\ IsLocalPath(routerNav')
        /\ ~IsLocalPath(sess.nextParam) => routerNav' = AdminPath]_vars

\* a login has just succeeded on a login page opened with a percent-encoded
\* protocol-relative target, which was refused
C23_Witness ==
  /\ sess.doc = "login"
  /\ loc.search = <<"?", "n", "e", "x", "t", "=", "%", "2", "F", "%", "2", "F", "e">>
  /\ sess.nextParam = <<"/", "/", "e">>
  /\ store.token \notin {NoToken, OldToken}
  /\ routerNav = AdminPath

\* the request this step appended to the log
Sent == muts'[Len(muts')]

\* C24: approve, reject, refund and disable requests are sent only by the
\* confirmation of the dialog opened for that item: a step that sends one
\* confirms the open dialog, cancelling sends nothing, and a confirmation sends
\* exactly one request, for the dialog's action and item.
C24_OnlyConfirmedSends ==
  /\ [][muts' # muts => dlg.open /\ dlg'.last = "confirm" /\ ~dlg'.open]_vars
  /\ [][(dlg.open /\ ~dlg'.open /\ dlg'.last = "cancel") => muts' = muts]_vars
  /\ [][(dlg.open /\ ~dlg'.open /\ dlg'.last = "confirm")
        => /\ muts' = Append(muts, Sent)
           /\ Sent.mutation = MutationOf(dlg.action)
           /\ Sent.action = dlg.action
           /\ Sent.id = dlg.id]_vars

\* a dialog has just been cancelled after the reject of order i2 was confirmed:
\* the one request sent is that reject
C24_Witness ==
  /\ dlg.last = "cancel"
  /\ Len(muts) = 1
  /\ muts[1].mutation = "decideM"
  /\ muts[1].action = "reject"
  /\ muts[1].id = <<"i", "2">>

\* no patch is in flight, every refetch the settled patches scheduled has been
\* triggered, and the last of them has delivered the list
Quiescent ==
  /\ \A i \in 1..Len(pats) : pats[i].st # "inflight"
  /\ catq.timers = 0
  /\ catq.fetch = "idle"

SaveStep == lastPayload'.flip # lastPayload.flip

Elems(ids) == {ids[i] : i \in 1..Len(ids)}
Occurrences(ids, x) == Cardinality({i \in 1..Len(ids) : ids[i] = x})

\* the categoryIds of the payload sent in this step: no duplicates, the main
\* category once if one is selected, and otherwise the extras of the form
SentCategoryIdsRight ==
  /\ \A x \in Cats : Occurrences(lastPayload'.categoryIds, x) <= 1
  /\ form.categoryId # "" => Occurrences(lastPayload'.categoryIds, form.categoryId) = 1
  /\ Elems(lastPayload'.categoryIds) \ {form.categoryId} = Elems(form.categoryIds)

\* the extras in form state do not contain the main category
ExtrasWithoutMain == ~Includes(form.categoryIds, form.categoryId)

====
